---------------------------- MODULE Spec2Model ----------------------------
(***************************************************************************)
(* A model of script.js, the L'Oreal chatbot front end: the conversation   *)
(* log, the localStorage round trip, the topic classifiers, the submit     *)
(* handler with its suspended remote call, the name editor and the reset.  *)
(*                                                                         *)
(* A JavaScript string is a sequence of one-character strings.  A long     *)
(* literal of the source that is only ever copied and compared (a canned   *)
(* reply, a role name, a URL) is written as a one-element sequence whose   *)
(* element stands for the whole literal.                                   *)
(***************************************************************************)
EXTENDS Naturals, Sequences, FiniteSets

VARIABLES
  phase,            \* position of the top-level script: "boot", "ready", "crashed"
  messages,         \* const messages (line 20)
  userName,         \* let userName (line 29)
  pastQuestions,    \* const pastQuestions (line 30)
  localStorage,     \* the items loreal_messages, loreal_pastQuestions, loreal_userName
  storageFull,      \* localStorage.setItem throws (quota exceeded)
  windowWorkerUrl,  \* window.WORKER_URL is set (secrets.js)
  windowApiKey,     \* window.OPENAI_API_KEY is set (secrets.js)
  userInputValue,   \* userInput.value
  userNameDisplay,  \* userNameDisplayEl.textContent
  chatWindow,       \* children of chatWindow, in order
  pending,          \* the requests in flight, each awaited by the submit handler of its turn
  nextTurn,         \* number of accepted submissions so far
  edits,            \* number of name prompts answered so far
  fetches           \* number of calls of fetch() so far

vars ==
  << phase, messages, userName, pastQuestions, localStorage, storageFull, windowWorkerUrl, windowApiKey, userInputValue,
     userNameDisplay, chatWindow, pending, nextTurn, edits, fetches >>

---------------------------------------------------------------------------
(* Bounds of the model. *)

\* accepted (non-empty) submissions per session
MaxTurns == 2

\* name prompts answered per session
MaxEdits == 1

---------------------------------------------------------------------------
(* JavaScript values. *)

Undefined == [t |-> "undefined", v |-> <<>>]

Null == [t |-> "null", v |-> <<>>]

Str(s) == [t |-> "string", v |-> s]

Num(n) == [t |-> "number", v |-> <<n>>]

\* an object, as the record of the properties it has
Obj(r) == [t |-> "object", v |-> r]

\* an array
Arr(s) == [t |-> "array", v |-> s]

\* o.k (undefined when o is a primitive or has no such property)
Prop(o, k) ==
  IF o.t = "object" /\ k \in DOMAIN o.v THEN o.v[k] ELSE Undefined

\* a[0]
First(a) ==
  IF a.t = "array" /\ Len(a.v) >= 1 THEN a.v[1] ELSE Undefined

\* ToBoolean: undefined, null, "" and 0 are falsy
Truthy(x) ==
  CASE x.t = "undefined" -> FALSE
    [] x.t = "null" -> FALSE
    [] x.t = "string" -> x.v # <<>>
    [] x.t = "number" -> x.v # <<0>>
    [] OTHER -> TRUE

\* a || b
OrElse(a, b) == IF Truthy(a) THEN a ELSE b

---------------------------------------------------------------------------
(* Strings. *)

UpperChars ==
  << "A", "B", "C", "D", "E", "F", "G", "H", "I", "J", "K", "L", "M",
     "N", "O", "P", "Q", "R", "S", "T", "U", "V", "W", "X", "Y", "Z" >>

LowerChars ==
  << "a", "b", "c", "d", "e", "f", "g", "h", "i", "j", "k", "l", "m",
     "n", "o", "p", "q", "r", "s", "t", "u", "v", "w", "x", "y", "z" >>

DigitChars == << "0", "1", "2", "3", "4", "5", "6", "7", "8", "9" >>

Range(s) == { s[i] : i \in 1..Len(s) }

WhiteSpace == { " ", "\t", "\n", "\r" }

\* [A-Za-z]
IsLetter(c) == c \in Range(UpperChars) \cup Range(LowerChars)

\* \w
IsWordChar(c) == IsLetter(c) \/ c \in Range(DigitChars) \/ c = "_"

\* [A-Za-z'\- ]
IsNameChar(c) == IsLetter(c) \/ c \in { "'", "-", " " }

ToLowerChar(c) ==
  IF c \in Range(UpperChars)
    THEN LowerChars[CHOOSE i \in 1..Len(UpperChars) : UpperChars[i] = c]
    ELSE c

toLowerCase(s) == [i \in 1..Len(s) |-> ToLowerChar(s[i])]

\* trim left out
trimNothing(s) == s

\* String.prototype.trim
trim(s) ==
  LET keep == { i \in 1..Len(s) : s[i] \notin WhiteSpace }
  IN  IF keep = {} THEN <<>>
      ELSE LET lo == CHOOSE i \in keep : \A j \in keep : i <= j
               hi == CHOOSE i \in keep : \A j \in keep : j <= i
           IN  SubSeq(s, lo, hi)

\* the substring of length Len(k) of t at (1-based) position i is k
MatchesAt(t, k, i) ==
  /\ i >= 1
  /\ i + Len(k) - 1 <= Len(t)
  /\ SubSeq(t, i, i + Len(k) - 1) = k

includes(t, k) == \E i \in 1..(Len(t) + 1) : MatchesAt(t, k, i)

startsWith(t, k) == MatchesAt(t, k, 1)

endsWith(t, k) == Len(k) <= Len(t) /\ MatchesAt(t, k, Len(t) - Len(k) + 1)

---------------------------------------------------------------------------
(* Topic classifiers. *)

keywords ==
  << <<"l", "o", "r", "e", "a", "l">>,
     <<"l", "'", "o", "r", "é", "a", "l">>,
     <<"l", "o", "r", "e", "á", "l">>,
     <<"m", "a", "k", "e", "u", "p">>,
     <<"b", "e", "a", "u", "t", "y">>,
     <<"s", "k", "i", "n", "c", "a", "r", "e">>,
     <<"s", "k", "i", "n">>,
     <<"h", "a", "i", "r">>,
     <<"h", "a", "i", "r", "c", "a", "r", "e">>,
     <<"f", "r", "a", "g", "r", "a", "n", "c", "e">>,
     <<"p", "e", "r", "f", "u", "m", "e">>,
     <<"c", "o", "s", "m", "e", "t", "i", "c">>,
     <<"p", "r", "o", "d", "u", "c", "t">>,
     <<"r", "o", "u", "t", "i", "n", "e">>,
     <<"s", "e", "r", "u", "m">>,
     <<"m", "o", "i", "s", "t", "u", "r", "i", "z", "e", "r">>,
     <<"f", "o", "u", "n", "d", "a", "t", "i", "o", "n">>,
     <<"m", "a", "s", "c", "a", "r", "a">>,
     <<"s", "h", "a", "m", "p", "o", "o">>,
     <<"c", "o", "n", "d", "i", "t", "i", "o", "n", "e", "r">>,
     <<"s", "t", "y", "l", "i", "n", "g">>,
     <<"c", "o", "l", "o", "r">>,
     <<"c", "r", "e", "a", "m">>,
     <<"c", "l", "e", "a", "n", "s", "e", "r">>,
     <<"t", "o", "n", "e", "r">>,
     <<"s", "u", "n", "s", "c", "r", "e", "e", "n">>,
     <<"s", "p", "f">> >>

isRelatedQuery(text) ==
  IF text = <<>> THEN FALSE
  ELSE LET t == toLowerCase(text)
       IN  \E n \in 1..Len(keywords) : includes(t, keywords[n])

greetings ==
  << <<"h", "i">>,
     <<"h", "e", "l", "l", "o">>,
     <<"h", "e", "y">>,
     <<"b", "o", "n", "j", "o", "u", "r">>,
     <<"g", "o", "o", "d", " ", "m", "o", "r", "n", "i", "n", "g">>,
     <<"g", "o", "o", "d", " ", "a", "f", "t", "e", "r", "n", "o", "o", "n">>,
     <<"g", "o", "o", "d", " ", "e", "v", "e", "n", "i", "n", "g">>,
     <<"g", "r", "e", "e", "t", "i", "n", "g", "s">> >>

isGreeting(text) ==
  IF text = <<>> THEN FALSE
  ELSE LET t == toLowerCase(text)
       IN  \E n \in 1..Len(greetings) :
             LET g == greetings[n]
             IN  \/ t = g
                 \/ startsWith(t, g \o <<" ">>)
                 \/ includes(t, <<" ">> \o g \o <<" ">>)
                 \/ endsWith(t, <<" ">> \o g)

---------------------------------------------------------------------------
(* The self-introduction pattern of the submit handler:                    *)
(*   /\b(?:my name is|i'm|i am|this is)\s+([A-Za-z][A-Za-z'\- ]{0,40})/i   *)

namePhrases ==
  << <<"m", "y", " ", "n", "a", "m", "e", " ", "i", "s">>,
     <<"i", "'", "m">>,
     <<"i", " ", "a", "m">>,
     <<"t", "h", "i", "s", " ", "i", "s">> >>

\* the {0,40} of the capture group
NameTailMax == 40

\* \b before position i, whose character is a word character
WordBoundaryBefore(text, i) == i = 1 \/ ~IsWordChar(text[i - 1])

\* first position at or after j that holds no white space (Len + 1 if none)
SkipSpace(text, j) ==
  LET stop == { k \in j..Len(text) : text[k] \notin WhiteSpace }
  IN  IF stop = {} THEN Len(text) + 1
      ELSE CHOOSE k \in stop : \A m \in stop : k <= m

\* the phrase p, \s+ and the first letter of the capture match from i
PhraseAt(text, p, i) ==
  /\ WordBoundaryBefore(text, i)
  /\ MatchesAt(toLowerCase(text), p, i)
  /\ i + Len(p) <= Len(text)
  /\ text[i + Len(p)] \in WhiteSpace
  /\ SkipSpace(text, i + Len(p)) <= Len(text)
  /\ IsLetter(text[SkipSpace(text, i + Len(p))])

\* the greedy capture that starts at position k
CaptureFrom(text, k) ==
  LET bad  == { m \in (k + 1)..Len(text) : ~IsNameChar(text[m]) }
      run  == IF bad = {} THEN Len(text)
              ELSE (CHOOSE m \in bad : \A q \in bad : m <= q) - 1
      last == IF run > k + NameTailMax THEN k + NameTailMax ELSE run
  IN  SubSeq(text, k, last)

\* text.match(...): the capture of the leftmost match, or Null
nameMatch(text) ==
  LET hits == { i \in 1..Len(text) :
                  \E n \in 1..Len(namePhrases) : PhraseAt(text, namePhrases[n], i) }
  IN  IF hits = {} THEN Null
      ELSE LET i == CHOOSE h \in hits : \A g \in hits : h <= g
               p == namePhrases[CHOOSE n \in 1..Len(namePhrases) :
                                  PhraseAt(text, namePhrases[n], i)]
           IN  Str(CaptureFrom(text, SkipSpace(text, i + Len(p))))

---------------------------------------------------------------------------
(* Literals of the source. *)

\* messages[0], the system instruction
SystemMessage ==
  [ role    |-> Str(<<"system">>),
    content |-> Str(<<"You are L'Oreal's Smart Product Advisor. ...">>),
    time    |-> Undefined ]

WelcomeText == <<"Bonjour - I'm L'Oreal's Smart Product Advisor. Ask about products, ...">>

GreetText == <<"Bonjour! I'm L'Oreal's Smart Product Advisor. How can I help you ...?">>

RefuseText == <<"I'm here to help with L'Oreal products, ... - I can't assist with that. ...">>

CfgText == <<"This demo is not configured to talk to the API. ...">>

ErrText == <<"Sorry - something went wrong. Please try again later.">>

NoResponseText == <<"(No response from API)">>

InfoText(name) ==
  <<"Nice to meet you, ">> \o name \o <<"! Ask me about L'Oreal products or routines.">>

GuestText == <<"Guest">>

EmbeddedWorkerUrl == <<"https://lorealchatbot.dilyosov.workers.dev/">>

OpenAiUrl == <<"https://api.openai.com/v1/chat/completions">>

\* new Date().toISOString(): some instant; its value is never read back
NowISO == Str(<<"<ISO instant>">>)

UserMessage(text) == [role |-> Str(<<"user">>), content |-> Str(text), time |-> NowISO]

\* an assistant message with a time stamp; content is any JavaScript value
AssistantMessage(content) ==
  [role |-> Str(<<"assistant">>), content |-> content, time |-> NowISO]

\* an assistant message pushed without a time property
AssistantMessageNoTime(content) ==
  [role |-> Str(<<"assistant">>), content |-> content, time |-> Undefined]

---------------------------------------------------------------------------
(* localStorage and JSON.                                                  *)
(* An item is Null (getItem returns null), Str(s) (a text that is not      *)
(* JSON, the empty text included) or the JSON value its text denotes.      *)

MessageKeys == { "role", "content", "time" }

\* JSON.stringify of one message: properties that are undefined are left out
StringifyMessage(m) ==
  Obj([k \in { k \in MessageKeys : m[k].t # "undefined" } |-> m[k]])

\* JSON.stringify(messages.slice(1))
StringifyMessages(store) ==
  Arr([i \in 1..Len(store) |-> StringifyMessage(store[i])])

\* JSON.stringify(pastQuestions)
StringifyQuestions(pq) == Arr([i \in 1..Len(pq) |-> Str(pq[i])])

\* JSON.parse(raw) throws
ParseThrows(item) == item.t = "string"

\* { role: m.role, content: m.content, time: m.time || null }
RestoreEntry(m) ==
  [ role    |-> Prop(m, "role"),
    content |-> Prop(m, "content"),
    time    |-> OrElse(Prop(m, "time"), Null) ]

\* forEach stops at the first entry that is null: m.role throws a TypeError
RestoredCount(arr) ==
  LET bad == { i \in 1..Len(arr) : arr[i].t = "null" }
  IN  IF bad = {} THEN Len(arr)
      ELSE (CHOOSE i \in bad : \A j \in bad : i <= j) - 1

\* the strings of a JSON array of strings
QuestionTexts(arr) == [i \in 1..Len(arr) |-> arr[i].v]

\* the whole array saved, messages[0] included
saveConversationWhole(ls, msgs, pq, full) ==
  IF full THEN ls
  ELSE [ls EXCEPT !.loreal_messages = StringifyMessages(msgs),
                  !.loreal_pastQuestions = StringifyQuestions(pq)]

\* saveConversation(): the store afterwards
saveConversation(ls, msgs, pq, full) ==
  IF full THEN ls
  ELSE [ls EXCEPT !.loreal_messages = StringifyMessages(Tail(msgs)),
                  !.loreal_pastQuestions = StringifyQuestions(pq)]

\* restoreConversation(): messages and pastQuestions afterwards
restoreConversation(ls, msgs, pq) ==
  LET raw == ls.loreal_messages
      rpq == ls.loreal_pastQuestions
  IN  IF ~Truthy(raw) \/ ParseThrows(raw) \/ raw.t # "array" \/ Len(raw.v) = 0
        THEN [messages |-> msgs, pastQuestions |-> pq]
      ELSE
        LET n     == RestoredCount(raw.v)
            added == [i \in 1..n |-> RestoreEntry(raw.v[i])]
        IN  IF n < Len(raw.v) \/ ~Truthy(rpq) \/ ParseThrows(rpq) \/ rpq.t # "array"
              THEN [messages |-> msgs \o added, pastQuestions |-> pq]
            ELSE [messages |-> msgs \o added,
                  pastQuestions |-> pq \o QuestionTexts(rpq.v)]

\* setUserName(name): the name, the store and the display afterwards, and
\* whether setItem threw
setUserName(name, ls, display, full) ==
  LET u == IF Truthy(name) THEN Str(trim(name.v)) ELSE Null
  IN  IF Truthy(u)
        THEN IF full
               THEN [userName |-> u, ls |-> ls, display |-> display, threw |-> TRUE]
               ELSE [userName |-> u,
                     ls |-> [ls EXCEPT !.loreal_userName = u],
                     display |-> u.v, threw |-> FALSE]
      ELSE [userName |-> u,
            ls |-> [ls EXCEPT !.loreal_userName = Null],
            display |-> GuestText, threw |-> FALSE]

---------------------------------------------------------------------------
(* The page: bubbles of the chat window. *)

\* `${x}` in a template literal
TemplateText(x) ==
  CASE x.t = "string" -> x.v
    [] x.t = "undefined" -> <<"undefined">>
    [] x.t = "null" -> <<"null">>
    [] OTHER -> <<"[object Object]">>

\* renderUserMessage(text)
UserBubble(text) == [role |-> "user", text |-> <<" ">> \o text, turn |-> 0]

\* renderAssistantMessage(text)
AiBubble(x) ==
  [role |-> "ai", text |-> <<"L'Oreal Advisor: ">> \o TemplateText(x), turn |-> 0]

\* loadingEl of the submit handler of one turn
LoadingBubble(id) ==
  [role |-> "loading", text |-> <<"L'Oreal Advisor: Thinking...">>, turn |-> id]

\* the placeholder left in the page
RemoveLoadingNothing(win, id) == win

\* loadingEl.remove()
RemoveLoading(win, id) ==
  LET keep == { i \in 1..Len(win) : ~(win[i].role = "loading" /\ win[i].turn = id) }
      pos(n) == CHOOSE i \in keep : Cardinality({ j \in keep : j <= i }) = n
  IN  [n \in 1..Cardinality(keep) |-> win[pos(n)]]

---------------------------------------------------------------------------
(* The remote call. *)

\* getWorkerUrl(): the embedded URL, whatever window.WORKER_URL holds
getWorkerUrl == Str(EmbeddedWorkerUrl)

\* if (!getWorkerUrl() && !window.OPENAI_API_KEY): the guard of the submit handler
NotConfigured(apiKey) == ~Truthy(getWorkerUrl) /\ ~apiKey

\* sendToApi: the endpoint it fetches, Null when it throws before any fetch
Transport(apiKey) ==
  IF Truthy(getWorkerUrl) THEN getWorkerUrl
  ELSE IF apiKey THEN Str(OpenAiUrl)
  ELSE Null

\* the system message left out of the body
RequestWithoutSystem(id, url, msgs) ==
  [ turn |-> id, url |-> url,
    messages |-> [i \in 1..(Len(msgs) - 1) |-> StringifyMessage(msgs[i + 1])] ]

\* the request sendToApi makes: body is JSON.stringify of the whole array
Request(id, url, msgs) ==
  [ turn |-> id, url |-> url,
    messages |-> [i \in 1..Len(msgs) |-> StringifyMessage(msgs[i])] ]

EmptyObject == Obj([k \in {} |-> Undefined])

\* a completion in the expected shape
Completion(content) ==
  Obj([choices |-> Arr(<< Obj([message |-> Obj([content |-> content])]) >>)])

ReplyText == <<"Try the Revitalift serum.">>

\* what a fetch can come back with (digits: the status as `${resp.status}`)
Responses ==
  { [rejected |-> TRUE,  status |-> 0,   digits |-> "0",   body |-> Str(<<>>)],
    [rejected |-> FALSE, status |-> 500, digits |-> "500",
       body |-> Str(<<"Internal Server Error">>)],
    [rejected |-> FALSE, status |-> 200, digits |-> "200", body |-> Str(<<"<html>">>)],
    [rejected |-> FALSE, status |-> 200, digits |-> "200",
       body |-> Completion(Str(ReplyText))],
    [rejected |-> FALSE, status |-> 200, digits |-> "200", body |-> EmptyObject],
    [rejected |-> FALSE, status |-> 200, digits |-> "200",
       body |-> Obj([choices |-> Arr(<< Obj([message |-> EmptyObject]) >>)])] }

\* resp.ok
Ok(resp) == resp.status >= 200 /\ resp.status <= 299

\* sendToApi rejects: fetch failed, the status is no success, or resp.json() throws
SendFails(resp) == resp.rejected \/ ~Ok(resp) \/ ParseThrows(resp.body)

\* the message of the error the catch block receives
ErrorMessage(resp) ==
  IF resp.rejected THEN <<"TypeError: Failed to fetch">>
  ELSE IF ~Ok(resp)
    THEN <<"Worker responded with status ", resp.digits, ": ">> \o resp.body.v
  ELSE <<"SyntaxError: Unexpected token">>

\* data && data.choices && data.choices[0] && data.choices[0].message
\*   ? data.choices[0].message.content : "(No response from API)"
assistantText(data) ==
  LET choices == Prop(data, "choices")
      first   == First(choices)
      message == Prop(first, "message")
  IN  IF Truthy(data) /\ Truthy(choices) /\ Truthy(first) /\ Truthy(message)
        THEN Prop(message, "content")
      ELSE Str(NoResponseText)

\* the error shown as it is
catchContentRaw(resp) == Str(ErrorMessage(resp))

\* the content the catch block pushes for the error it caught
catchContent(resp) == Str(ErrText)

---------------------------------------------------------------------------
(* Inputs of the model. *)

\* what the user types before pressing send
Inputs ==
  { <<>>,
    <<" ", " ">>,
    <<"H", "i", " ", "s", "k", "i", "n">>,
    <<"t", "h", "i", "s", " ", "i", "s", " ", "A", "l">>,
    <<" ", "d", "r", "y", " ", "s", "k", "i", "n", " ">> }

\* what the user answers to the name prompt (Null: cancelled)
NameInputs == { Null, Str(<<" ">>), Str(<<" ", "A", "l", " ">>) }

StoredUser == Obj([role |-> Str(<<"user">>), content |-> Str(<<"s", "p", "f">>),
                   time |-> NowISO])

StoredReply == Obj([role |-> Str(<<"assistant">>), content |-> Str(ReplyText)])

EmptyStore ==
  [loreal_messages |-> Null, loreal_pastQuestions |-> Null, loreal_userName |-> Null]

\* what an earlier session saved
SavedStore ==
  [ loreal_messages |-> Arr(<<StoredUser, StoredReply>>),
    loreal_pastQuestions |-> Arr(<<Str(<<"s", "p", "f">>)>>),
    loreal_userName |-> Str(<<"A", "l">>) ]

\* a saved conversation with entries that are no messages
DamagedStore ==
  [ loreal_messages |->
      Arr(<<StoredUser, Num(5), Obj([content |-> Str(ReplyText)]), Null, StoredReply>>),
    loreal_pastQuestions |-> Arr(<<Str(<<"s", "p", "f">>)>>),
    loreal_userName |-> Str(<<" ">>) ]

\* items that are not JSON
GarbageStore ==
  [ loreal_messages |-> Str(<<"[">>),
    loreal_pastQuestions |-> Str(<<"[">>),
    loreal_userName |-> Null ]

\* a conversation item that is JSON but no array
NonArrayStore ==
  [ loreal_messages |-> EmptyObject,
    loreal_pastQuestions |-> Arr(<<Str(<<"s", "p", "f">>)>>),
    loreal_userName |-> Null ]

\* the store, the quota and secrets.js of a session
Environments ==
  { [store |-> EmptyStore,    full |-> FALSE, workerUrl |-> TRUE,  apiKey |-> FALSE],
    [store |-> SavedStore,    full |-> FALSE, workerUrl |-> TRUE,  apiKey |-> TRUE],
    [store |-> DamagedStore,  full |-> FALSE, workerUrl |-> FALSE, apiKey |-> FALSE],
    [store |-> NonArrayStore, full |-> FALSE, workerUrl |-> FALSE, apiKey |-> TRUE],
    [store |-> GarbageStore,  full |-> TRUE,  workerUrl |-> TRUE,  apiKey |-> FALSE],
    [store |-> SavedStore,    full |-> TRUE,  workerUrl |-> TRUE,  apiKey |-> FALSE] }

---------------------------------------------------------------------------
(* The state when the script starts (lines 1-33). *)

Init ==
  /\ phase = "boot"
  /\ messages = <<SystemMessage>>
  /\ userName = Null
  /\ pastQuestions = <<>>
  /\ \E e \in Environments :
       /\ localStorage = e.store
       /\ storageFull = e.full
       /\ windowWorkerUrl = e.workerUrl
       /\ windowApiKey = e.apiKey
  /\ userInputValue = <<>>
  /\ userNameDisplay = GuestText
  /\ chatWindow = <<>>
  /\ pending = {}
  /\ nextTurn = 0
  /\ edits = 0
  /\ fetches = 0

\* what no handler assigns
UNCHANGED_env == UNCHANGED << phase, storageFull, windowWorkerUrl, windowApiKey >>

(* The top-level script: restore, welcome, stored name, listeners. *)
Load ==
  /\ phase = "boot"
  /\ LET r == restoreConversation(localStorage, messages, pastQuestions)
         stored == localStorage.loreal_userName
         n == setUserName(stored, localStorage, userNameDisplay, storageFull)
     IN  /\ messages' = r.messages
         /\ pastQuestions' = r.pastQuestions
         /\ chatWindow' = <<AiBubble(Str(WelcomeText))>>
         /\ IF Truthy(stored)
              THEN /\ userName' = n.userName
                   /\ localStorage' = n.ls
                   /\ userNameDisplay' = n.display
                   /\ phase' = IF n.threw THEN "crashed" ELSE "ready"
              ELSE /\ UNCHANGED << userName, localStorage, userNameDisplay >>
                   /\ phase' = "ready"
  /\ UNCHANGED << userInputValue, pending, nextTurn, edits, fetches >>
  /\ UNCHANGED << storageFull, windowWorkerUrl, windowApiKey >>

\* the topic check made before the greeting check
RouteTopicFirst(text) ==
  IF isRelatedQuery(text) THEN "remote"
  ELSE IF isGreeting(text) THEN "greeting"
  ELSE "refusal"

\* the topic check left out
RouteNoRefusal(text) ==
  IF isGreeting(text) THEN "greeting" ELSE "remote"

\* which branch the submit handler takes for a non-empty text
Route(text) ==
  IF isGreeting(text) THEN "greeting"
  ELSE IF ~isRelatedQuery(text) THEN "refusal"
  ELSE "remote"

(* The submit handler up to its first await (or its return). *)
Submit(raw) ==
  /\ phase = "ready"
  /\ UNCHANGED_env
  /\ UNCHANGED << edits, userNameDisplay >>
  /\ LET text == trim(raw)
         id   == nextTurn + 1
         m1   == Append(messages, UserMessage(text))
         ls1  == saveConversation(localStorage, m1, pastQuestions, storageFull)
         nm   == nameMatch(text)
         pq1  == Append(pastQuestions, text)
         canned(reply) ==
           /\ chatWindow' = <<UserBubble(text), AiBubble(Str(reply))>>
           /\ messages' = Append(m1, AssistantMessage(Str(reply)))
           /\ localStorage' =
                saveConversation(ls1, Append(m1, AssistantMessage(Str(reply))),
                                 pq1, storageFull)
           /\ UNCHANGED << pending, fetches >>
     IN  IF text = <<>>
           THEN /\ userInputValue' = raw
                /\ UNCHANGED << messages, userName, pastQuestions, localStorage,
                                chatWindow, pending, nextTurn, fetches >>
         ELSE
           /\ nextTurn < MaxTurns
           /\ nextTurn' = id
           /\ userInputValue' = <<>>
           /\ userName' = IF Truthy(nm) THEN Str(trim(nm.v)) ELSE userName
           /\ pastQuestions' = pq1
           /\ CASE Route(text) = "greeting" -> canned(GreetText)
                [] Route(text) = "refusal" -> canned(RefuseText)
                [] OTHER ->
                     IF NotConfigured(windowApiKey) THEN canned(CfgText)
                     ELSE IF Transport(windowApiKey) = Null
                       THEN /\ chatWindow' =
                                 <<UserBubble(text), AiBubble(Str(ErrText))>>
                            /\ messages' =
                                 Append(m1, AssistantMessageNoTime(Str(ErrText)))
                            /\ localStorage' = ls1
                            /\ UNCHANGED << pending, fetches >>
                     ELSE /\ chatWindow' = <<UserBubble(text), LoadingBubble(id)>>
                          /\ messages' = m1
                          /\ localStorage' = ls1
                          /\ pending' =
                               pending \cup {Request(id, Transport(windowApiKey), m1)}
                          /\ fetches' = fetches + 1

\* a failed fetch is made again
refetchOnFailure(resp) == IF SendFails(resp) THEN 1 ELSE 0

\* the calls of fetch() the handler makes once the response is in: sendToApi
\* has no loop and the catch block does not call it again
refetch(resp) == 0

(* The submit handler of turn id after its await: the fetch came back. *)
Complete(id, resp) ==
  /\ phase = "ready"
  /\ \E rq \in pending : rq.turn = id
  /\ pending' = { rq \in pending : rq.turn # id }
  /\ fetches' = fetches + refetch(resp)
  /\ UNCHANGED_env
  /\ UNCHANGED << userName, pastQuestions, userInputValue, userNameDisplay,
                  nextTurn, edits >>
  /\ IF SendFails(resp)
       THEN /\ chatWindow' =
                 Append(RemoveLoading(chatWindow, id), AiBubble(Str(ErrText)))
            /\ messages' = Append(messages, AssistantMessageNoTime(catchContent(resp)))
            /\ UNCHANGED localStorage
     ELSE LET text == assistantText(resp.body)
              m2   == Append(messages, AssistantMessage(text))
          IN  /\ chatWindow' = Append(RemoveLoading(chatWindow, id), AiBubble(text))
              /\ messages' = m2
              /\ localStorage' =
                   saveConversation(localStorage, m2, pastQuestions, storageFull)

(* The click handler of editNameBtn; name is what prompt() returned. *)
EditName(name) ==
  /\ phase = "ready"
  /\ edits < MaxEdits
  /\ edits' = edits + 1
  /\ UNCHANGED_env
  /\ UNCHANGED << pastQuestions, userInputValue, pending, nextTurn, fetches >>
  /\ IF name = Null
       THEN UNCHANGED << messages, userName, localStorage, userNameDisplay, chatWindow >>
     ELSE LET n    == setUserName(name, localStorage, userNameDisplay, storageFull)
              info == InfoText(trim(name.v))
          IN  /\ userName' = n.userName
              /\ localStorage' = n.ls
              /\ userNameDisplay' = n.display
              /\ IF ~n.threw /\ Truthy(name) /\ Truthy(Str(trim(name.v)))
                   THEN /\ chatWindow' = Append(chatWindow, AiBubble(Str(info)))
                        /\ messages' =
                             Append(messages, AssistantMessageNoTime(Str(info)))
                 ELSE UNCHANGED << messages, chatWindow >>

\* the last message kept instead of the first
resetMessagesKeepLast(msgs) == IF Len(msgs) > 0 THEN <<msgs[Len(msgs)]>> ELSE msgs

\* messages.length = 0; messages.push(system)
resetMessages(msgs) == IF Len(msgs) > 0 THEN <<msgs[1]>> ELSE msgs

\* the questions left in the store
clearedStoreMessagesOnly(ls) == [ls EXCEPT !.loreal_messages = Null]

\* removeItem("loreal_messages"); removeItem("loreal_pastQuestions")
clearedStore(ls) ==
  [ls EXCEPT !.loreal_messages = Null, !.loreal_pastQuestions = Null]

(* The click handler of clearConvBtn. *)
ClearConversation ==
  /\ phase = "ready"
  /\ UNCHANGED_env
  /\ UNCHANGED << userInputValue, pending, nextTurn, edits, fetches >>
  /\ LET ls1 == clearedStore(localStorage)
         n   == setUserName(Null, ls1, userNameDisplay, storageFull)
     IN  /\ messages' = resetMessages(messages)
         /\ pastQuestions' = <<>>
         /\ userName' = n.userName
         /\ localStorage' = n.ls
         /\ userNameDisplay' = n.display
         /\ chatWindow' = <<AiBubble(Str(WelcomeText))>>

Next ==
  \/ Load
  \/ \E raw \in Inputs : Submit(raw)
  \/ \E id \in 1..MaxTurns, resp \in Responses : Complete(id, resp)
  \/ \E name \in NameInputs : EditName(name)
  \/ ClearConversation

Spec == Init /\ [][Next]_vars

\* the await of every turn comes back: the fetch resolves or rejects
LiveSpec ==
  Spec /\ \A id \in 1..MaxTurns : WF_vars(\E resp \in Responses : Complete(id, resp))

---------------------------------------------------------------------------
(* Properties. *)

Last(sq) == sq[Len(sq)]

\* the input is empty or holds white space only
IsBlank(raw) == \A i \in 1..Len(raw) : raw[i] \in WhiteSpace

\* the store holds the conversation without messages[0], and the question log
Persisted(ls, msgs, pq) ==
  /\ ls.loreal_messages = StringifyMessages(Tail(msgs))
  /\ ls.loreal_pastQuestions = StringifyQuestions(pq)

\* C1: in every reachable state the conversation is non-empty and its first
\* element is the system message it was created with.
C1_SystemMessageFirst ==
  /\ Len(messages) >= 1
  /\ messages[1] = SystemMessage

\* a session with a submission, an answered name prompt and then a reset, while
\* a request is still in flight
C1_Witness ==
  /\ phase = "ready"
  /\ nextTurn >= 1
  /\ edits >= 1
  /\ pending # {}
  /\ Len(messages) = 1

\* C2: a submit step whose non-empty text is a greeting (also one that holds a
\* domain keyword) appends the user message and the canned greeting, and puts
\* no request in flight: the handler returns without a network call.
C2_GreetingNeverSends ==
  [][\A raw \in Inputs :
       (Submit(raw) /\ ~IsBlank(raw) /\ isGreeting(trim(raw)))
         => /\ pending' = pending
            /\ messages' = messages \o << UserMessage(trim(raw)),
                                          AssistantMessage(Str(GreetText)) >>]_vars

\* a greeting that holds a domain keyword was answered with the canned greeting
C2_Witness ==
  \E i \in 2..(Len(messages) - 1) :
    /\ messages[i].role = Str(<<"user">>)
    /\ isGreeting(messages[i].content.v)
    /\ isRelatedQuery(messages[i].content.v)
    /\ messages[i + 1] = AssistantMessage(Str(GreetText))
    /\ pending = {}

\* C3: a submit step whose non-empty text is no greeting and holds no domain
\* keyword appends the user message and the canned refusal, saves both (when
\* the store takes writes) and puts no request in flight.
C3_UnrelatedRefused ==
  [][\A raw \in Inputs :
       (Submit(raw) /\ ~IsBlank(raw) /\ ~isGreeting(trim(raw))
          /\ ~isRelatedQuery(trim(raw)))
         => /\ pending' = pending
            /\ messages' = messages \o << UserMessage(trim(raw)),
                                          AssistantMessage(Str(RefuseText)) >>
            /\ ~storageFull => Persisted(localStorage', messages', pastQuestions')]_vars

\* an unrelated text was answered with the refusal, and the store holds both
C3_Witness ==
  /\ Len(messages) >= 3
  /\ Last(messages) = AssistantMessage(Str(RefuseText))
  /\ messages[Len(messages) - 1].role = Str(<<"user">>)
  /\ ~isRelatedQuery(messages[Len(messages) - 1].content.v)
  /\ Persisted(localStorage, messages, pastQuestions)
  /\ pending = {}

\* C4: submitting an empty or white-space-only input changes neither the
\* conversation, the question log, the name, the store, the chat window nor
\* the requests in flight.
C4_BlankInputNoEffect ==
  [][\A raw \in Inputs :
       (Submit(raw) /\ IsBlank(raw))
         => UNCHANGED << messages, pastQuestions, userName, localStorage,
                         userNameDisplay, chatWindow, pending, nextTurn >>]_vars

\* white space was submitted after a turn, and is still in the input box
C4_Witness ==
  /\ userInputValue # <<>>
  /\ IsBlank(userInputValue)
  /\ nextTurn >= 1
  /\ Len(messages) > 1
  /\ localStorage.loreal_messages # Null

\* C5: right after the reset the conversation is exactly the system message,
\* the question log is empty, the name is unset and the three items are gone.
C5_ResetClearsAll ==
  [][ClearConversation
       => /\ messages' = <<SystemMessage>>
          /\ pastQuestions' = <<>>
          /\ userName' = Null
          /\ localStorage' = EmptyStore]_vars

\* a reset after a submission that took a name: nothing of it is left
C5_Witness ==
  /\ phase = "ready"
  /\ nextTurn = MaxTurns
  /\ messages = <<SystemMessage>>
  /\ pastQuestions = <<>>
  /\ userName = Null
  /\ localStorage = EmptyStore
  /\ pending = {}

\* the user message of the turn a request belongs to, as the request carries it
TurnUserEntry(rq) == rq.messages[Len(rq.messages)]

TurnEnds ==
  \/ \E raw \in Inputs : Submit(raw) /\ ~IsBlank(raw) /\ pending' = pending
  \/ \E rq \in pending : \E resp \in Responses : Complete(rq.turn, resp)

\* C7 as claimed: when a step ends a turn and leaves no request in flight, and
\* the store takes writes, the store holds the conversation without the system
\* message, and the question log.
C7_Claimed ==
  [][(TurnEnds /\ pending' = {} /\ ~storageFull)
       => Persisted(localStorage', messages', pastQuestions')]_vars

\* role and content are strings: what the claim calls a well-formed entry
WellFormed(e) ==
  /\ e.t = "object"
  /\ Prop(e, "role").t = "string"
  /\ Prop(e, "content").t = "string"

\* the entries of arr that are well formed, in their order
Sanitized(arr) ==
  LET keep == { i \in 1..Len(arr) : WellFormed(arr[i]) }
      pos(n) == CHOOSE i \in keep : Cardinality({ j \in keep : j <= i }) = n
  IN  [n \in 1..Cardinality(keep) |-> arr[pos(n)]]

\* two entries with the same role, content and time (no time and null alike)
SameEntry(a, b) ==
  /\ Prop(a, "role") = Prop(b, "role")
  /\ Prop(a, "content") = Prop(b, "content")
  /\ OrElse(Prop(a, "time"), Null) = OrElse(Prop(b, "time"), Null)

\* C8 as claimed: loading a saved array and taking the snapshot gives the saved
\* entries without the malformed ones, in their order.
C8_Claimed ==
  [][(Load /\ localStorage.loreal_messages.t = "array")
       => LET snapshot == StringifyMessages(Tail(messages')).v
              expected == Sanitized(localStorage.loreal_messages.v)
          IN  /\ Len(snapshot) = Len(expected)
              /\ \A i \in 1..Len(expected) : SameEntry(snapshot[i], expected[i])]_vars

\* data.choices[0].message.content, undefined when any step of the path is
CompletionField(data) ==
  Prop(Prop(First(Prop(data, "choices")), "message"), "content")

\* C9 as claimed: when the request succeeds and the response holds no
\* completion field, the message appended is an assistant message whose
\* content is the sentinel.
C9_Claimed ==
  [][\A rq \in pending : \A resp \in Responses :
       (Complete(rq.turn, resp) /\ ~SendFails(resp)
          /\ CompletionField(resp.body).t = "undefined")
         => /\ messages' = Append(messages, Last(messages'))
            /\ Last(messages').role = Str(<<"assistant">>)
            /\ Last(messages').content = Str(NoResponseText)]_vars

\* C10 as claimed: with neither window.WORKER_URL nor window.OPENAI_API_KEY
\* set, a related text that is no greeting is answered with the configuration
\* notice and no request is made.
C10_Claimed ==
  [][\A raw \in Inputs :
       (Submit(raw) /\ ~IsBlank(raw) /\ ~isGreeting(trim(raw))
          /\ isRelatedQuery(trim(raw)) /\ ~windowWorkerUrl /\ ~windowApiKey)
         => /\ pending' = pending
            /\ Last(messages') = AssistantMessage(Str(CfgText))]_vars

\* C11 as claimed: at most one request is in flight, an input submitted
\* while one is in flight is not processed: it appends no message and sends
\* no second request.
C11_Claimed ==
  [][\A raw \in Inputs :
       (Submit(raw) /\ pending # {})
         => /\ messages' = messages
            /\ pending' = pending
            /\ Cardinality(pending') <= 1]_vars

\* C12 as claimed: when a turn that ends at once took a name from the text
\* and the store takes writes, the name is the captured one and the item
\* loreal_userName holds it.
C12_Claimed ==
  [][\A raw \in Inputs :
       (Submit(raw) /\ ~IsBlank(raw) /\ Truthy(nameMatch(trim(raw)))
          /\ pending' = {} /\ ~storageFull)
         => /\ userName' = Str(trim(nameMatch(trim(raw)).v))
            /\ localStorage'.loreal_userName = userName']_vars

\* C13: a submit step whose text is related and no greeting calls fetch
\* exactly once, and the request carries the whole conversation as it is at
\* the call: the system message first, every earlier message (the restored
\* ones too) in order, and the user message just submitted last.
C13_SendsFullConversation ==
  [][\A raw \in Inputs :
       (Submit(raw) /\ ~IsBlank(raw) /\ ~isGreeting(trim(raw))
          /\ isRelatedQuery(trim(raw)))
         => /\ fetches' = fetches + 1
            /\ \E rq \in pending' \ pending :
                 /\ pending' = pending \cup {rq}
                 /\ rq.messages =
                      StringifyMessages(Append(messages, UserMessage(trim(raw)))).v
                 /\ rq.messages[1] = StringifyMessage(SystemMessage)
                 /\ Last(rq.messages) = StringifyMessage(UserMessage(trim(raw)))]_vars

\* a request in flight that carries the system message, a restored exchange
\* and the new user message
C13_Witness ==
  \E rq \in pending :
    /\ Len(rq.messages) = 4
    /\ rq.messages[1] = StringifyMessage(SystemMessage)
    /\ rq.messages[2] = StoredUser
    /\ Prop(rq.messages[3], "content") = Str(ReplyText)
    /\ Prop(rq.messages[4], "role") = Str(<<"user">>)
    /\ isRelatedQuery(Prop(rq.messages[4], "content").v)

\* C14: fetch is called only by a submit step whose text is related and no
\* greeting, once per such step; a step that handles a failed request calls
\* it not again and leaves no request of that turn in flight; so the number
\* of calls never exceeds the number of accepted submissions.
C14_NoRetry ==
  [][/\ fetches' >= fetches
     /\ (fetches' # fetches)
          => /\ fetches' = fetches + 1
             /\ \E raw \in Inputs :
                  /\ Submit(raw)
                  /\ ~IsBlank(raw)
                  /\ ~isGreeting(trim(raw))
                  /\ isRelatedQuery(trim(raw))
     /\ \A rq \in pending : \A resp \in Responses :
          (Complete(rq.turn, resp) /\ SendFails(resp))
            => /\ fetches' = fetches
               /\ pending' = pending \ {rq}
     /\ fetches' <= nextTurn']_vars

\* every turn of the session went to the network and failed, one call each
C14_Witness ==
  /\ fetches = MaxTurns
  /\ nextTurn = MaxTurns
  /\ pending = {}
  /\ Cardinality({ i \in 1..Len(messages) :
                     messages[i] = AssistantMessageNoTime(Str(ErrText)) }) = MaxTurns

\* the request of turn id is in flight: its handler is suspended at the await
InFlight(id) == \E rq \in pending : rq.turn = id

\* the placeholder of turn id is in the page
Thinking(id) == \E n \in 1..Len(chatWindow) : chatWindow[n] = LoadingBubble(id)

\* C15: provided every fetch comes back, a turn whose request is in flight
\* ends: the request is gone and the placeholder is removed.  A submission
\* answered at once appends the user message and one assistant message and
\* shows no placeholder; one that goes to the network appends the user message
\* only; the completion, success or failure, appends exactly one assistant
\* message, removes the placeholder and ends the turn.
C15_TurnsComplete ==
  /\ \A id \in 1..MaxTurns : InFlight(id) ~> (~InFlight(id) /\ ~Thinking(id))
  /\ [][/\ \A raw \in Inputs :
             (Submit(raw) /\ ~IsBlank(raw))
               => IF pending' = pending
                    THEN /\ Len(messages') = Len(messages) + 2
                         /\ SubSeq(messages', 1, Len(messages) + 1) =
                              Append(messages, UserMessage(trim(raw)))
                         /\ Last(messages').role = Str(<<"assistant">>)
                         /\ \A n \in 1..Len(chatWindow') :
                              chatWindow'[n].role # "loading"
                  ELSE messages' = Append(messages, UserMessage(trim(raw)))
        /\ \A rq \in pending : \A resp \in Responses :
             Complete(rq.turn, resp)
               => /\ messages' = Append(messages, Last(messages'))
                  /\ Last(messages').role = Str(<<"assistant">>)
                  /\ ~InFlight(rq.turn)'
                  /\ ~Thinking(rq.turn)']_vars

\* a turn that went to the network and came back with a completion
C15_Witness ==
  /\ pending = {}
  /\ fetches >= 1
  /\ Len(messages) >= 3
  /\ Last(messages) = AssistantMessage(Str(ReplyText))
  /\ messages[Len(messages) - 1].role = Str(<<"user">>)
  /\ Last(chatWindow) = AiBubble(Str(ReplyText))
  /\ \A n \in 1..Len(chatWindow) : chatWindow[n].role # "loading"

\* C16: whenever a step changes the item loreal_messages, the step is the
\* reset, which removes the item, or the new value is the conversation after
\* the step without its element at index 0: it holds neither the system
\* message nor the text of the placeholder.
C16_StoredIsTail ==
  [][(localStorage'.loreal_messages # localStorage.loreal_messages)
       => \/ ClearConversation /\ localStorage'.loreal_messages = Null
          \/ LET written == localStorage'.loreal_messages
             IN  /\ written = StringifyMessages(Tail(messages'))
                 /\ Len(written.v) = Len(messages') - 1
                 /\ \A i \in 1..Len(written.v) :
                      /\ written.v[i] # StringifyMessage(SystemMessage)
                      /\ Prop(written.v[i], "content") # Str(LoadingBubble(0).text)]_vars

\* the conversation was saved while the placeholder of a turn is in the page
C16_Witness ==
  /\ \E id \in 1..MaxTurns : InFlight(id) /\ Thinking(id)
  /\ Len(messages) >= 2
  /\ localStorage.loreal_messages = StringifyMessages(Tail(messages))
  /\ Last(localStorage.loreal_messages.v) = StringifyMessage(Last(messages))

\* C17 as claimed: when the conversation is exactly the system message, the
\* item loreal_messages is gone and a request is still in flight (a reset was
\* made after the last submission), the completion of that request, success
\* or failure, leaves the conversation and the item as they are.
C17_Claimed ==
  [][\A rq \in pending : \A resp \in Responses :
       (Complete(rq.turn, resp) /\ messages = <<SystemMessage>>
          /\ localStorage.loreal_messages = Null)
         => /\ messages' = <<SystemMessage>>
            /\ localStorage'.loreal_messages = Null]_vars

\* the user messages of the saved (or sent) entries, in their order
UserTexts(arr) ==
  LET keep == { i \in 1..Len(arr) : Prop(arr[i], "role") = Str(<<"user">>) }
      pos(n) == CHOOSE i \in keep : Cardinality({ j \in keep : j <= i }) = n
  IN  [n \in 1..Cardinality(keep) |-> Prop(arr[pos(n)], "content").v]

\* C18 as claimed: with no reset and no name prompt in between, the completion
\* of a turn appends its assistant message right after the user message of
\* that turn.
C18_Claimed ==
  [][\A rq \in pending : \A resp \in Responses :
       (Complete(rq.turn, resp) /\ edits = 0
          /\ \E i \in 1..Len(messages) :
               StringifyMessage(messages[i]) = TurnUserEntry(rq))
         => /\ messages' = Append(messages, Last(messages'))
            /\ Last(messages').role = Str(<<"assistant">>)
            /\ StringifyMessage(messages'[Len(messages') - 1]) = TurnUserEntry(rq)]_vars

\* C19 as claimed: after an accepted submission, when the store takes writes
\* and the conversation was not restored from a damaged item, the item
\* loreal_pastQuestions lists the texts of the user messages of the item
\* loreal_messages, in their order.
C19_Claimed ==
  [][\A raw \in Inputs :
       (Submit(raw) /\ ~IsBlank(raw) /\ ~storageFull
          /\ Len(pastQuestions) = Len(UserTexts(StringifyMessages(messages).v)))
         => /\ localStorage'.loreal_messages.t = "array"
            /\ localStorage'.loreal_pastQuestions.t = "array"
            /\ QuestionTexts(localStorage'.loreal_pastQuestions.v) =
                 UserTexts(localStorage'.loreal_messages.v)]_vars

=============================================================================
